---- MODULE Spec2Model ----
(***************************************************************************)
(* Contract viewer: the highlight set of ContractViewer, the citation      *)
(* pipeline of ChatInterface.handleSubmit, the chat route's stream relay   *)
(* and the fragment lookup of PDFViewer.findTextInTextLayer.               *)
(*                                                                         *)
(* Strings are sequences of one-character strings, so that offsets,        *)
(* substrings and regular expressions are computed as the code computes    *)
(* them.  Sequences are 1-based; every offset and index that the code      *)
(* keeps (currentHighlight, foundIndex, startIndex, ...) is 0-based as in  *)
(* the code.                                                               *)
(***************************************************************************)
EXTENDS Integers, Sequences, FiniteSets, TLC

VARIABLES
    \* ContractViewer (src/app/page.tsx)
    file, highlights, currentHighlight, lastOp,
    \* ChatInterface (src/components/pdf-viewer-simple.tsx)
    \* pdfPages: the text items of the loaded file's pages; contractText,
    \* messages, isLoading: the component's state; pc: where handleSubmit
    \* stands; currentQuestion, assistantContent, exactTextsToHighlight,
    \* closureContractText, assistantId: handleSubmit's locals and the
    \* contractText its closure captured
    pdfPages, contractText, messages, isLoading, pc,
    currentQuestion, assistantContent, exactTextsToHighlight,
    closureContractText, assistantId,
    \* The chat request in flight: input is the text of the input field,
    \* apiKey whether OPENAI_API_KEY is set, openaiStatus the status the
    \* model API answers with, emitted the deltas of its answer,
    \* fetchResponse what the route returns to the client's fetch, upstream
    \* the bytes of the model API's body not yet read by the route,
    \* upstreamState whether that body ends or fails after them, relayPc
    \* where the route's ReadableStream.start stands, wire the bytes enqueued
    \* and not yet read by the client, wireState the state of the route's
    \* stream controller
    input, apiKey, openaiStatus, emitted, fetchResponse, upstream,
    upstreamState, relayPc, wire, wireState,
    \* PDFViewer (src/unnamed/part_003): textMap is the entry of pageTextMaps
    \* for the page looked at; searchText, searchIndex and layerMatches are
    \* cleanSearchText, searchIndex and matches of findTextInTextLayer, and
    \* layerPc tells whether its loop is running
    textMap, searchText, searchIndex, layerMatches, layerPc,
    \* PDFViewer's rendering: scale is the zoom scale in tenths, pdfDoc
    \* the numPages of the document loadPDF has set (0: null), renderPasses the calls of
    \* renderAllPages that have not returned (each with the scale its closure
    \* captured and the pages it has rendered), pageTextMaps the stored maps
    \* (how many pages they hold, and the scale their bounds were computed
    \* at); zoomClicks counts the zoom clicks
    scale, pdfDoc, renderPasses, pageTextMaps, zoomClicks,
    \* The file effect of ChatInterface: pendingExtractions are the files
    \* whose extractTextFromPDF promise has not settled; askedFile is the file
    \* that was loaded when handleSubmit sent the question in flight
    pendingExtractions, askedFile,
    \* PDFViewer's navigate-to-highlight effect: scrolledTo holds the
    \* highlight scrollToPage was last called for, if any
    scrolledTo

viewerVars == <<file, highlights, currentHighlight, lastOp, scrolledTo>>
chatVars == <<pdfPages, contractText, messages, isLoading, pc,
              currentQuestion, assistantContent, exactTextsToHighlight,
              closureContractText, assistantId>>
streamVars == <<input, apiKey, openaiStatus, emitted, fetchResponse, upstream,
                upstreamState, relayPc, wire, wireState>>
searchVars == <<textMap, searchText, searchIndex, layerMatches, layerPc>>
zoomVars == <<scale, pdfDoc, renderPasses, pageTextMaps, zoomClicks>>
layerVars == <<searchVars, zoomVars>>
sessionVars == <<pendingExtractions, askedFile>>
vars == <<viewerVars, chatVars, streamVars, layerVars, sessionVars>>

(***************************************************************************)
(* Bounds of the model.                                                    *)
(***************************************************************************)
MaxHighlights == 3
MaxFiles == 2

(***************************************************************************)
(* Generic helpers.                                                        *)
(***************************************************************************)
\* JavaScript's % : the remainder takes the sign of the dividend.
JsRem(a, n) == IF a >= 0 THEN a % n ELSE -((-a) % n)

\* All sequences over S of length at most n.
SeqsUpTo(S, n) == UNION {[1..k -> S] : k \in 0..n}

Min(S) == CHOOSE x \in S : \A y \in S : x <= y

\* Array.prototype.join('') of a list of strings.
RECURSIVE Flatten(_)
Flatten(ss) == IF ss = <<>> THEN <<>> ELSE Head(ss) \o Flatten(Tail(ss))

\* String.prototype.substring(a, b) for 0 <= a, with b clamped to the length.
Substring(s, a, b) ==
    LET e == IF b > Len(s) THEN Len(s) ELSE b
    IN IF a >= e THEN <<>> ELSE [i \in 1..(e - a) |-> s[a + i]]

\* Whether pat occurs in s at 0-based offset i.
StartsWithAt(s, i, pat) ==
    /\ i >= 0
    /\ i + Len(pat) <= Len(s)
    /\ \A j \in 1..Len(pat) : s[i + j] = pat[j]

\* String.prototype.indexOf(pat, from): the smallest offset >= from, or -1.
IndexOf(s, pat, from) ==
    LET start == IF from > Len(s) THEN Len(s) ELSE from
        hits == {i \in start..(Len(s) - Len(pat)) : StartsWithAt(s, i, pat)}
    IN IF hits = {} THEN -1 ELSE Min(hits)

\* String.prototype.includes(pat).
Includes(s, pat) == IndexOf(s, pat, 0) # -1

\* The characters \s matches (of those the model's texts use).
IsSpace(c) == c \in {" ", "\n", "\t", "\r"}

\* The characters . does not match: the line terminators.
IsDot(c) == c \notin {"\n", "\r"}

IsDigit(c) == c \in {"0", "1", "2", "3", "4", "5", "6", "7", "8", "9"}

UpperCase ==
    <<"A", "B", "C", "D", "E", "F", "G", "H", "I", "J", "K", "L", "M",
      "N", "O", "P", "Q", "R", "S", "T", "U", "V", "W", "X", "Y", "Z">>
LowerCase ==
    <<"a", "b", "c", "d", "e", "f", "g", "h", "i", "j", "k", "l", "m",
      "n", "o", "p", "q", "r", "s", "t", "u", "v", "w", "x", "y", "z">>

LowerChar(c) ==
    IF \E i \in 1..Len(UpperCase) : UpperCase[i] = c
      THEN LowerCase[CHOOSE i \in 1..Len(UpperCase) : UpperCase[i] = c]
      ELSE c

\* String.prototype.toLowerCase().
ToLowerCase(s) == [i \in 1..Len(s) |-> LowerChar(s[i])]

\* String.prototype.replace(/\s+/g, ' ').
RECURSIVE CollapseFrom(_, _)
CollapseFrom(s, i) ==
    IF i > Len(s) THEN <<>>
    ELSE IF IsSpace(s[i])
      THEN (IF i > 1 /\ IsSpace(s[i - 1]) THEN <<>> ELSE <<" ">>)
              \o CollapseFrom(s, i + 1)
      ELSE <<s[i]>> \o CollapseFrom(s, i + 1)

CollapseWhitespace(s) == CollapseFrom(s, 1)

\* String.prototype.trim().
Trim(s) ==
    LET keep == {i \in 1..Len(s) : ~IsSpace(s[i])}
    IN IF keep = {} THEN <<>>
       ELSE LET a == Min(keep)
                b == CHOOSE x \in keep : \A y \in keep : y <= x
            IN [i \in 1..(b - a + 1) |-> s[a + i - 1]]

\* Number to decimal digits, as a template literal formats it.
DigitChars == <<"0", "1", "2", "3", "4", "5", "6", "7", "8", "9">>
RECURSIVE NatToString(_)
NatToString(n) ==
    IF n < 10 THEN <<DigitChars[n + 1]>>
    ELSE NatToString(n \div 10) \o <<DigitChars[(n % 10) + 1]>>

\* parseInt of a run of decimal digits.
DigitValue(c) == (CHOOSE i \in 1..10 : DigitChars[i] = c) - 1
RECURSIVE ParseInt(_)
ParseInt(ds) ==
    IF Len(ds) = 1 THEN DigitValue(ds[1])
    ELSE 10 * ParseInt(SubSeq(ds, 1, Len(ds) - 1)) + DigitValue(ds[Len(ds)])

(***************************************************************************)
(* ContractViewer: highlights, currentHighlight.                           *)
(***************************************************************************)
\* The highlight instances a caller of onHighlight may hand over.
SampleHighlights ==
    {[id |-> <<"h", "1">>, pageNumber |-> 1, text |-> <<"a">>],
     [id |-> <<"h", "2">>, pageNumber |-> 2, text |-> <<"b">>]}

HighlightLists == SeqsUpTo(SampleHighlights, MaxHighlights)

\* An <input type="file"> change event: no file, or a file of some type.
UploadEvents ==
    {[present |-> FALSE, name |-> 0, pdf |-> FALSE]}
      \cup [present : {TRUE}, name : 1..MaxFiles, pdf : BOOLEAN]

NoOp == [op |-> "none", arg |-> <<>>, prev |-> -1, n |-> 0, preH |-> <<>>]

ViewerState0 ==
    /\ file = 0
    /\ highlights = <<>>
    /\ currentHighlight = -1
    /\ lastOp = NoOp
    /\ scrolledTo = <<>>

\* The chat is idle and holds no document text.
ChatIdle ==
    /\ pdfPages = <<>>
    /\ closureContractText = <<>>
    /\ assistantId = 0
    /\ contractText = <<>>
    /\ messages = <<>>
    /\ isLoading = FALSE
    /\ pc = "idle"
    /\ currentQuestion = <<>>
    /\ assistantContent = <<>>
    /\ exactTextsToHighlight = <<>>

\* No request is in flight.
NoResponse == [status |-> 0, error |-> <<>>]

StreamIdle ==
    /\ input = <<>>
    /\ apiKey = TRUE
    /\ openaiStatus = 0
    /\ emitted = <<>>
    /\ fetchResponse = NoResponse
    /\ upstream = <<>>
    /\ upstreamState = "none"
    /\ relayPc = "none"
    /\ wire = <<>>
    /\ wireState = "none"

\* The route has closed the answer stream and the client has read all of it.
StreamEnded ==
    /\ input = <<>>
    /\ apiKey = TRUE
    /\ openaiStatus = 200
    /\ emitted = <<>>
    /\ fetchResponse = [status |-> 200, error |-> <<>>]
    /\ upstream = <<>>
    /\ upstreamState = "ends"
    /\ relayPc = "returned"
    /\ wire = <<>>
    /\ wireState = "closed"

\* useState(1.2); zoomIn and zoomOut move the scale by 0.2 between 0.5 and 3.
\* Scales are counted in tenths.
InitialScale == 12
ScaleStep == 2
MaxScale == 30
MinScale == 5

\* useState(new Map()) and useState([]): no page has a map.
NoPageTextMaps == [pages |-> 0, scale |-> 0]

\* No page is rendered.
NoTextMap == [defined |-> FALSE, items |-> <<>>]

LayerIdle ==
    /\ textMap = NoTextMap
    /\ searchText = <<>>
    /\ searchIndex = 0
    /\ layerMatches = <<>>
    /\ layerPc = "idle"
    /\ scale = InitialScale
    /\ pdfDoc = 0
    /\ renderPasses = <<>>
    /\ pageTextMaps = NoPageTextMaps
    /\ zoomClicks = 0

\* No extraction is pending and no question has been asked.
SessionIdle ==
    /\ pendingExtractions = {}
    /\ askedFile = 0

\* setCurrentHighlight(newHighlights.length > 0 ? 0 : -1)
ResetIndexAlwaysFirst(newHighlights) == 0
ResetIndex(newHighlights) == IF Len(newHighlights) > 0 THEN 0 ELSE -1

\* setHighlights(newHighlights)
ReplaceHighlightsMerging(old, newHighlights) == old \o newHighlights
ReplaceHighlights(old, newHighlights) == newHighlights

\* The updater functions of handleHighlightNavigation.
NavIndexNoWrap(direction, prev, n) ==
    IF direction = "next" THEN prev + 1 ELSE JsRem(prev - 1, n)
NavIndex(direction, prev, n) ==
    IF direction = "next" THEN JsRem(prev + 1, n) ELSE JsRem(prev - 1 + n, n)

\* The navigate-to-highlight effect of PDFViewer, which React runs after a
\* render in which currentHighlight has changed:
\* if (currentHighlight >= 0 && highlights[currentHighlight]) scrollToPage.
NavigateEffect ==
    scrolledTo' =
        IF /\ currentHighlight' # currentHighlight
           /\ currentHighlight' >= 0
           /\ currentHighlight' < Len(highlights')
          THEN <<highlights'[currentHighlight' + 1]>>
          ELSE scrolledTo

handleFileUpload(ev) ==
    /\ lastOp' = [op |-> "upload", arg |-> <<>>, prev |-> currentHighlight,
                  n |-> Len(highlights), preH |-> highlights]
    /\ IF ev.present /\ ev.pdf
         THEN /\ file' = ev.name
              /\ highlights' = <<>>
              /\ currentHighlight' = -1
         ELSE UNCHANGED <<file, highlights, currentHighlight>>
    /\ NavigateEffect

handleHighlightNavigation(direction) ==
    /\ lastOp' = [op |-> direction, arg |-> <<>>, prev |-> currentHighlight,
                  n |-> Len(highlights), preH |-> highlights]
    /\ IF Len(highlights) = 0
         THEN UNCHANGED <<file, highlights, currentHighlight>>
         ELSE /\ currentHighlight' =
                    NavIndex(direction, currentHighlight, Len(highlights))
              /\ UNCHANGED <<file, highlights>>
    /\ NavigateEffect

addHighlights(newHighlights) ==
    /\ lastOp' = [op |-> "addHighlights", arg |-> newHighlights,
                  prev |-> currentHighlight, n |-> Len(highlights),
                  preH |-> highlights]
    /\ highlights' = ReplaceHighlights(highlights, newHighlights)
    /\ currentHighlight' = ResetIndex(newHighlights)
    /\ UNCHANGED file
    /\ NavigateEffect

ViewerInit ==
    ViewerState0 /\ ChatIdle /\ StreamIdle /\ LayerIdle /\ SessionIdle

ViewerNext ==
    \/ \E ev \in UploadEvents : handleFileUpload(ev)
          /\ UNCHANGED <<chatVars, streamVars, layerVars, sessionVars>>
    \/ \E d \in {"next", "prev"} :
          handleHighlightNavigation(d)
          /\ UNCHANGED <<chatVars, streamVars, layerVars, sessionVars>>
    \/ \E H \in HighlightLists : addHighlights(H)
          /\ UNCHANGED <<chatVars, streamVars, layerVars, sessionVars>>

SpecViewer == ViewerInit /\ [][ViewerNext]_vars

(***************************************************************************)
(* C1  Whatever uploads, highlight replacements and navigation steps have  *)
(* happened: a non-empty highlight list has 0 <= currentHighlight <        *)
(* highlights.length, and currentHighlight = -1 exactly when the list is   *)
(* empty.                                                                  *)
(***************************************************************************)
C1_ActiveIndexInvariant ==
    /\ Len(highlights) > 0 =>
          (0 <= currentHighlight /\ currentHighlight < Len(highlights))
    /\ (currentHighlight = -1) <=> (Len(highlights) = 0)

\* A non-empty set whose active index has been moved off 0 by navigation.
C1_Witness ==
    /\ lastOp.op \in {"next", "prev"}
    /\ Len(highlights) = MaxHighlights
    /\ currentHighlight = Len(highlights) - 1

(***************************************************************************)
(* C2  addHighlights(H) replaces the state: afterwards highlights = H and  *)
(* currentHighlight is 0 for a non-empty H and -1 for an empty one,        *)
(* whatever the state before.                                              *)
(***************************************************************************)
C2_AddHighlightsReplaces ==
    lastOp.op = "addHighlights" =>
        /\ highlights = lastOp.arg
        /\ currentHighlight = (IF Len(lastOp.arg) > 0 THEN 0 ELSE -1)

\* A shorter list replaced a longer one whose active index was not 0.
C2_Witness ==
    /\ lastOp.op = "addHighlights"
    /\ lastOp.prev = 2
    /\ Len(lastOp.preH) = 3
    /\ Len(lastOp.arg) = 1
    /\ lastOp.arg[1] # lastOp.preH[1]

(***************************************************************************)
(* C3  Navigation is circular: with n > 0 highlights 'next' moves the      *)
(* active index i to (i+1) mod n and 'prev' to (i-1+n) mod n; n 'next'     *)
(* steps return to the start; 'prev' after 'next' restores the index; with *)
(* n = 0 both leave the state as it was.                                   *)
(***************************************************************************)
RECURSIVE NavTimes(_, _, _, _)
NavTimes(direction, i, n, k) ==
    IF k = 0 THEN i ELSE NavTimes(direction, NavIndex(direction, i, n), n, k - 1)

C3_NavigationCircular ==
    LET n == Len(highlights) IN
    /\ (lastOp.op = "next" /\ lastOp.n > 0) =>
          /\ currentHighlight = (lastOp.prev + 1) % lastOp.n
          /\ highlights = lastOp.preH
    /\ (lastOp.op = "prev" /\ lastOp.n > 0) =>
          /\ currentHighlight = (lastOp.prev - 1 + lastOp.n) % lastOp.n
          /\ highlights = lastOp.preH
    /\ (lastOp.op \in {"next", "prev"} /\ lastOp.n = 0) =>
          /\ currentHighlight = lastOp.prev
          /\ highlights = lastOp.preH
    /\ n > 0 =>
          /\ NavTimes("next", currentHighlight, n, n) = currentHighlight
          /\ NavIndex("prev", NavIndex("next", currentHighlight, n), n)
                = currentHighlight

\* 'next' has wrapped from the last highlight to the first.
C3_Witness ==
    /\ lastOp.op = "next"
    /\ lastOp.n = MaxHighlights
    /\ lastOp.prev = lastOp.n - 1
    /\ currentHighlight = 0

(***************************************************************************)
(* extractTextFromPDF: the document text the chat resolves citations in.   *)
(***************************************************************************)
\* A page is the list of its text items (str, hasEOL), as PDF.js returns
\* them; a document is the list of its pages.
PageHeaderOpen == <<"-", "-", "-", " ", "P", "A", "G", "E", " ">>
PageHeaderClose == <<" ", "-", "-", "-">>

\* items.map(item => item.str + (item.hasEOL ? '\n' : '')).join(' ')
RECURSIVE JoinItems(_)
JoinItems(items) ==
    IF items = <<>> THEN <<>>
    ELSE LET t == Head(items).str \o
                    (IF Head(items).hasEOL THEN <<"\n">> ELSE <<>>)
         IN IF Len(items) = 1 THEN t ELSE t \o <<" ">> \o JoinItems(Tail(items))

\* .replace(/\s+/g, ' ').trim()
PageText(items) == Trim(CollapseWhitespace(JoinItems(items)))

\* fullText after pages pageNum..numPages have been appended to acc.
RECURSIVE FullTextFrom(_, _, _)
FullTextFrom(pages, pageNum, acc) ==
    IF pageNum > Len(pages) THEN acc
    ELSE LET pageText == PageText(pages[pageNum])
         IN FullTextFrom(pages, pageNum + 1,
               IF Len(pageText) > 0
                 THEN acc \o <<"\n", "\n">> \o PageHeaderOpen
                          \o NatToString(pageNum) \o PageHeaderClose
                          \o <<"\n">> \o pageText
                 ELSE acc)

\* The promise's outcome: rejected when no page has text, else the trimmed
\* text.
extractTextFromPDF(pages) ==
    LET fullText == FullTextFrom(pages, 1, <<>>)
    IN IF Len(Trim(fullText)) = 0
         THEN [ok |-> FALSE, text |-> <<>>]
         ELSE [ok |-> TRUE, text |-> Trim(fullText)]

(***************************************************************************)
(* findExactTextHighlights.                                                *)
(***************************************************************************)
\* The digits of a match of /--- PAGE (\d+) ---/ that starts at offset i of
\* s, or <<>> when there is none.  \d+ is greedy and the character after
\* the digits must be the space of " ---", so only the longest run matches.
PageMarkerDigitsAt(s, i) ==
    IF ~StartsWithAt(s, i, PageHeaderOpen) THEN <<>>
    ELSE LET d0 == i + Len(PageHeaderOpen)
             runs == {m \in 1..(Len(s) - d0) :
                        \A j \in 1..m : IsDigit(s[d0 + j])}
         IN IF runs = {} THEN <<>>
            ELSE LET m == CHOOSE x \in runs : \A y \in runs : y <= x
                 IN IF StartsWithAt(s, d0 + m, PageHeaderClose)
                      THEN Substring(s, d0, d0 + m)
                      ELSE <<>>

\* textBeforeMatch.match(/--- PAGE (\d+) ---/g): the digits of each match,
\* scanning from offset `from`, matches not overlapping.
RECURSIVE PageMatches(_, _)
PageMatches(s, from) ==
    LET starts == {i \in from..Len(s) : PageMarkerDigitsAt(s, i) # <<>>}
    IN IF starts = {} THEN <<>>
       ELSE LET i == Min(starts)
                ds == PageMarkerDigitsAt(s, i)
            IN <<ds>> \o PageMatches(s,
                   i + Len(PageHeaderOpen) + Len(ds) + Len(PageHeaderClose))

\* "Better page number detection": the number of the last page marker in
\* the text before the match, 1 when there is none.
PageNumberBefore(textBeforeMatch) ==
    LET pageMatches == PageMatches(textBeforeMatch, 0)
    IN IF Len(pageMatches) > 0
         THEN ParseInt(pageMatches[Len(pageMatches)])
         ELSE 1

ExactHighlightPrefix ==
    <<"e", "x", "a", "c", "t", "-", "h", "i", "g", "h", "l", "i", "g", "h",
      "t", "-">>

\* `exact-highlight-${index}-${foundIndex}`
HighlightIdWithoutIndex(index, foundIndex) ==
    ExactHighlightPrefix \o NatToString(foundIndex)
HighlightId(index, foundIndex) ==
    ExactHighlightPrefix \o NatToString(index) \o <<"-">>
        \o NatToString(foundIndex)

\* The highlights one element of exactTexts contributes (none or one: the
\* loop breaks after the first occurrence).  index is 0-based.
HighlightsOfText(contractTxt, exactText, index) ==
    IF Len(exactText) < 5 THEN <<>>
    ELSE
      LET cleanExactText == CollapseWhitespace(Trim(exactText))
          cleanContractText == CollapseWhitespace(contractTxt)
          foundIndex == IndexOf(ToLowerCase(cleanContractText),
                                ToLowerCase(cleanExactText), 0)
      IN IF foundIndex = -1 THEN <<>>
         ELSE <<[id |-> HighlightId(index, foundIndex),
                 pageNumber |->
                     PageNumberBefore(Substring(contractTxt, 0, foundIndex)),
                 text |-> cleanExactText,
                 bounds |-> [x |-> 50, y |-> 100,
                             width |-> Len(cleanExactText) * 6,
                             height |-> 16]]>>

\* The loop is left at the first text that has no match.
RECURSIVE HighlightsFromStopping(_, _, _)
HighlightsFromStopping(contractTxt, exactTexts, i) ==
    IF i > Len(exactTexts) THEN <<>>
    ELSE IF HighlightsOfText(contractTxt, exactTexts[i], i - 1) = <<>>
      THEN <<>>
      ELSE HighlightsOfText(contractTxt, exactTexts[i], i - 1)
              \o HighlightsFromStopping(contractTxt, exactTexts, i + 1)

RECURSIVE HighlightsFrom(_, _, _)
HighlightsFrom(contractTxt, exactTexts, i) ==
    IF i > Len(exactTexts) THEN <<>>
    ELSE HighlightsOfText(contractTxt, exactTexts[i], i - 1)
            \o HighlightsFrom(contractTxt, exactTexts, i + 1)

findExactTextHighlights(contractTxt, exactTexts) ==
    HighlightsFrom(contractTxt, exactTexts, 1)

(***************************************************************************)
(* ChatInterface.handleSubmit: extraction of the cited texts from the      *)
(* answer (the highlightPatterns loop).                                    *)
(***************************************************************************)
\* <<HIGHLIGHT>> and its prefix <<HIGHLIGHT
Marker == <<"<", "<", "H", "I", "G", "H", "L", "I", "G", "H", "T", ">", ">">>
MarkerOpen == <<"<", "<", "H", "I", "G", "H", "L", "I", "G", "H", "T">>
Quote == <<"\"">>

\* A capture group: undefined, or a string.
Undefined == [def |-> FALSE, s |-> <<>>]
Captured(str) == [def |-> TRUE, s |-> str]

\* The result of RegExp.prototype.exec: index -1 stands for null.
NoMatch == [index |-> -1, end |-> -1, g1 |-> Undefined, g2 |-> Undefined]

\* chars s[a+1..a+k] (0-based offsets a..a+k-1) are all matched by .
DotRun(s, a, k) == \A j \in 1..k : IsDot(s[a + j])

\* /<<HIGHLIGHT>>(.*?)<<HIGHLIGHT>>/ anchored at offset i: the lazy group
\* takes the fewest characters after which the closing marker follows.
PerfectAt(s, i) ==
    IF ~StartsWithAt(s, i, Marker) THEN NoMatch
    ELSE LET a == i + Len(Marker)
             K == {k \in 0..(Len(s) - a) :
                     DotRun(s, a, k) /\ StartsWithAt(s, a + k, Marker)}
         IN IF K = {} THEN NoMatch
            ELSE [index |-> i, end |-> a + Min(K) + Len(Marker),
                  g1 |-> Captured(Substring(s, a, a + Min(K))),
                  g2 |-> Undefined]

\* /<<HIGHLIGHT>>(.*?)(?=<<HIGHLIGHT|$)/ anchored at offset i ($ without
\* the m flag: the end of the string only).
MissingCloseAt(s, i) ==
    IF ~StartsWithAt(s, i, Marker) THEN NoMatch
    ELSE LET a == i + Len(Marker)
             K == {k \in 0..(Len(s) - a) :
                     /\ DotRun(s, a, k)
                     /\ \/ StartsWithAt(s, a + k, MarkerOpen)
                        \/ a + k = Len(s)}
         IN IF K = {} THEN NoMatch
            ELSE [index |-> i, end |-> a + Min(K),
                  g1 |-> Captured(Substring(s, a, a + Min(K))),
                  g2 |-> Undefined]

\* /<<HIGHLIGHT([^>]*?)>>(.*?)<<HIGHLIGHT>>/ anchored at offset i: the
\* fewest characters for group 1 for which the rest matches, then the
\* fewest for group 2.
ExtraOpeningAt(s, i) ==
    IF ~StartsWithAt(s, i, MarkerOpen) THEN NoMatch
    ELSE LET a == i + Len(MarkerOpen)
             Rest(j) == {k \in 0..(Len(s) - (a + j + 2)) :
                           /\ DotRun(s, a + j + 2, k)
                           /\ StartsWithAt(s, a + j + 2 + k, Marker)}
             J == {j \in 0..(Len(s) - a) :
                     /\ \A x \in 1..j : s[a + x] # ">"
                     /\ StartsWithAt(s, a + j, <<">", ">">>)
                     /\ Rest(j) # {}}
         IN IF J = {} THEN NoMatch
            ELSE LET j == Min(J)
                     k == Min(Rest(j))
                 IN [index |-> i, end |-> a + j + 2 + k + Len(Marker),
                     g1 |-> Captured(Substring(s, a, a + j)),
                     g2 |-> Captured(Substring(s, a + j + 2, a + j + 2 + k))]

\* /"([^"]*\$[^"]*?)"/ anchored at offset i: group 1 cannot cross a quote,
\* so it is the text up to the next quote, which must hold a '$'.
QuotedAmountAt(s, i) ==
    IF ~StartsWithAt(s, i, Quote) THEN NoMatch
    ELSE LET e == IndexOf(s, Quote, i + 1)
         IN IF e = -1 \/ ~Includes(Substring(s, i + 1, e), <<"$">>)
              THEN NoMatch
              ELSE [index |-> i, end |-> e + 1,
                    g1 |-> Captured(Substring(s, i + 1, e)),
                    g2 |-> Undefined]

\* highlightPatterns[p - 1] anchored at offset i.
PatternAt(p, s, i) ==
    CASE p = 1 -> PerfectAt(s, i)
      [] p = 2 -> MissingCloseAt(s, i)
      [] p = 3 -> ExtraOpeningAt(s, i)
      [] p = 4 -> QuotedAmountAt(s, i)

\* pattern.exec(s) with pattern.lastIndex = lastIndex: the leftmost match.
Exec(p, s, lastIndex) ==
    LET starts == {i \in lastIndex..Len(s) : PatternAt(p, s, i).index # -1}
    IN IF starts = {} THEN NoMatch ELSE PatternAt(p, s, Min(starts))

\* match[1] || match[2], then `textToHighlight && textToHighlight.length >
\* 3`: the text pushed (trimmed) for one match, if any.
PushedOfMatch(m) ==
    LET textToHighlight ==
            IF m.g1.def /\ Len(m.g1.s) > 0 THEN m.g1 ELSE m.g2
    IN IF textToHighlight.def /\ Len(textToHighlight.s) > 3
         THEN <<Trim(textToHighlight.s)>>
         ELSE <<>>

\* while ((match = pattern.exec(assistantContent)) !== null) { ... }
\* Every pattern consumes at least one character, so lastIndex advances.
RECURSIVE ExecLoop(_, _, _)
ExecLoop(p, s, lastIndex) ==
    LET m == Exec(p, s, lastIndex)
    IN IF m.index = -1 THEN <<>>
       ELSE PushedOfMatch(m) \o ExecLoop(p, s, m.end)

\* for (const pattern of highlightPatterns) { ... }: all four patterns run,
\* each appending to the same list.
FirstPatternOnly(answer) == ExecLoop(1, answer, 0)
ExtractMarked(answer) ==
    ExecLoop(1, answer, 0) \o ExecLoop(2, answer, 0)
        \o ExecLoop(3, answer, 0) \o ExecLoop(4, answer, 0)

(***************************************************************************)
(* extractKeyPhrasesForHighlighting: the fallback when no pattern of       *)
(* handleSubmit pushed a text.                                             *)
(***************************************************************************)
\* The offset of the first '.' at or after offset a, or the length of s:
\* where a greedy [^.]* that starts at a stops.
NonDotEnd(s, a) ==
    LET e == IndexOf(s, <<".">>, a) IN IF e = -1 THEN Len(s) ELSE e

\* Whether (\d+)\s*day occurs in s between offsets a and e (no '.' inside):
\* what is left of /X[^.]*?(\d+)\s*days?[^.]*/ after the keyword X.
DaysWithin(s, a, e) ==
    \E b \in a..(e - 1) : \E d \in 1..(e - b) : \E w \in 0..(e - b) :
        /\ b + d + w + 3 <= e
        /\ \A x \in 1..d : IsDigit(s[b + x])
        /\ \A x \in 1..w : IsSpace(s[b + d + x])
        /\ StartsWithAt(ToLowerCase(s), b + d + w, <<"d", "a", "y">>)

\* The end offset of the match of keyword pattern k anchored at offset i
\* (flags gi), or -1.  Each pattern ends in a greedy [^.]*, so a match
\* runs to the next '.' or to the end of the string.
KwPayment == <<"p", "a", "y", "m", "e", "n", "t">>
KwNet == <<"n", "e", "t">>
KwInvoice == <<"i", "n", "v", "o", "i", "c", "e">>
KwBilling == <<"b", "i", "l", "l", "i", "n", "g">>
KwTermination == <<"t", "e", "r", "m", "i", "n", "a", "t", "i", "o", "n">>
KwNotice == <<"n", "o", "t", "i", "c", "e">>
KwEitherParty == <<"e", "i", "t", "h", "e", "r", " ", "p", "a", "r", "t", "y">>
KwTerminate == <<"t", "e", "r", "m", "i", "n", "a", "t", "e">>

\* /X[^.]*?(\d+)\s*days?[^.]*/gi
KeywordDaysEnd(kw, s, i) ==
    IF ~StartsWithAt(ToLowerCase(s), i, kw) THEN -1
    ELSE LET a == i + Len(kw)
             e == NonDotEnd(s, a)
         IN IF DaysWithin(s, a, e) THEN e ELSE -1

\* /net\s*\d+[^.]*/gi
NetEnd(s, i) ==
    IF ~StartsWithAt(ToLowerCase(s), i, KwNet) THEN -1
    ELSE LET a == i + Len(KwNet)
             W == {w \in 0..(Len(s) - a) : \A x \in 1..w : IsSpace(s[a + x])}
             w == CHOOSE x \in W : \A y \in W : y <= x
         IN IF a + w < Len(s) /\ IsDigit(s[a + w + 1])
              THEN NonDotEnd(s, a + w)
              ELSE -1

\* /X[^.]*?[^.]*/gi
KeywordEnd(kw, s, i) ==
    IF ~StartsWithAt(ToLowerCase(s), i, kw) THEN -1
    ELSE NonDotEnd(s, i + Len(kw))

\* /X[^.]*?Y[^.]*/gi
KeywordThenEnd(kw, kw2, s, i) ==
    IF ~StartsWithAt(ToLowerCase(s), i, kw) THEN -1
    ELSE LET a == i + Len(kw)
             e == NonDotEnd(s, a)
         IN IF \E b \in a..(e - Len(kw2)) :
                   StartsWithAt(ToLowerCase(s), b, kw2)
              THEN e ELSE -1

\* /\$[\d,]+(?:\.\d{2})?/g
AmountEnd(s, i) ==
    IF ~StartsWithAt(s, i, <<"$">>) THEN -1
    ELSE LET a == i + 1
             R == {r \in 1..(Len(s) - a) :
                     \A x \in 1..r : IsDigit(s[a + x]) \/ s[a + x] = ","}
         IN IF R = {} THEN -1
            ELSE LET r == CHOOSE x \in R : \A y \in R : y <= x
                     b == a + r
                 IN IF /\ b + 3 <= Len(s)
                       /\ s[b + 1] = "."
                       /\ IsDigit(s[b + 2])
                       /\ IsDigit(s[b + 3])
                      THEN b + 3 ELSE b

\* /"([^"]+)"/g : the end offset (after the closing quote), or -1.
QuotedEnd(s, i) ==
    IF ~StartsWithAt(s, i, Quote) THEN -1
    ELSE LET e == IndexOf(s, Quote, i + 1)
         IN IF e = -1 \/ e = i + 1 THEN -1 ELSE e + 1

FallbackEnd(k, s, i) ==
    CASE k = "quoted" -> QuotedEnd(s, i)
      [] k = "payment" -> KeywordDaysEnd(KwPayment, s, i)
      [] k = "net" -> NetEnd(s, i)
      [] k = "invoice" -> KeywordEnd(KwInvoice, s, i)
      [] k = "billing" -> KeywordEnd(KwBilling, s, i)
      [] k = "termination" -> KeywordDaysEnd(KwTermination, s, i)
      [] k = "notice" -> KeywordThenEnd(KwNotice, KwTermination, s, i)
      [] k = "either" -> KeywordThenEnd(KwEitherParty, KwTerminate, s, i)
      [] k = "amount" -> AmountEnd(s, i)

\* response.match(pattern) with the g flag (and the exec loop of the quoted
\* pattern): the matched texts, left to right, not overlapping.
RECURSIVE MatchAll(_, _, _)
MatchAll(k, s, from) ==
    LET starts == {i \in from..Len(s) : FallbackEnd(k, s, i) # -1}
    IN IF starts = {} THEN <<>>
       ELSE LET i == Min(starts)
                e == FallbackEnd(k, s, i)
            IN <<Substring(s, i, e)>> \o MatchAll(k, s, e)

LongerThan(n, texts) == SelectSeq(texts, LAMBDA t : Len(t) > n)

\* match[1] of each match of the quoted pattern: the text without quotes.
Unquoted(texts) == [i \in 1..Len(texts) |-> SubSeq(texts[i], 2, Len(texts[i]) - 1)]

extractKeyPhrasesForHighlighting(response, question) ==
    LET questionLower == ToLowerCase(question)
        Has(w) == Includes(questionLower, w)
        quoted == LongerThan(10, Unquoted(MatchAll("quoted", response, 0)))
        payment ==
            IF Has(KwPayment) \/ Has(<<"p", "a", "y">>)
              THEN LongerThan(10, MatchAll("payment", response, 0))
                     \o LongerThan(10, MatchAll("net", response, 0))
                     \o LongerThan(10, MatchAll("invoice", response, 0))
                     \o LongerThan(10, MatchAll("billing", response, 0))
              ELSE <<>>
        termination ==
            IF Has(KwTermination) \/ Has(KwTerminate)
              THEN LongerThan(10, MatchAll("termination", response, 0))
                     \o LongerThan(10, MatchAll("notice", response, 0))
                     \o LongerThan(10, MatchAll("either", response, 0))
              ELSE <<>>
        amounts ==
            IF \/ Has(<<"v", "a", "l", "u", "e">>)
               \/ Has(<<"a", "m", "o", "u", "n", "t">>)
               \/ Has(<<"c", "o", "s", "t">>)
              THEN MatchAll("amount", response, 0)
              ELSE <<>>
    IN quoted \o payment \o termination \o amounts

(***************************************************************************)
(* ChatInterface.handleSubmit, from the read that reports the end of the   *)
(* stream to the end of the handler.                                       *)
(***************************************************************************)
\* One replace(regex, '"') of cleanContent: EndAt(i) is the end offset of
\* the regex's match anchored at i, or -1.
MarkerEnd(s, i) == IF StartsWithAt(s, i, Marker) THEN i + Len(Marker) ELSE -1

\* /<<HIGHLIGHT[^>]*?>>/
MarkerWithContentEnd(s, i) ==
    IF ~StartsWithAt(s, i, MarkerOpen) THEN -1
    ELSE LET a == i + Len(MarkerOpen)
             J == {j \in 0..(Len(s) - a) :
                     /\ \A x \in 1..j : s[a + x] # ">"
                     /\ StartsWithAt(s, a + j, <<">", ">">>)}
         IN IF J = {} THEN -1 ELSE a + Min(J) + 2

MarkerOpenEnd(s, i) ==
    IF StartsWithAt(s, i, MarkerOpen) THEN i + Len(MarkerOpen) ELSE -1

CleanEnd(k, s, i) ==
    CASE k = 1 -> MarkerEnd(s, i)
      [] k = 2 -> MarkerWithContentEnd(s, i)
      [] k = 3 -> MarkerOpenEnd(s, i)

RECURSIVE ReplaceWithQuote(_, _, _)
ReplaceWithQuote(k, s, i) ==
    IF i >= Len(s) THEN <<>>
    ELSE IF CleanEnd(k, s, i) # -1
      THEN Quote \o ReplaceWithQuote(k, s, CleanEnd(k, s, i))
      ELSE <<s[i + 1]>> \o ReplaceWithQuote(k, s, i + 1)

\* The displayed text is emptied.
CleanContentDiscarded(answer) == <<>>
CleanContent(answer) ==
    ReplaceWithQuote(3,
        ReplaceWithQuote(2, ReplaceWithQuote(1, answer, 0), 0), 0)

\* prev.map(msg => msg.id === id ? { ...msg, content } : msg)
SetContent(msgs, id, content) ==
    [i \in 1..Len(msgs) |->
        IF msgs[i].id = id THEN [msgs[i] EXCEPT !.content = content]
        ELSE msgs[i]]

\* The texts handed to findExactTextHighlights: those of the patterns, or,
\* when there are none, those of the fallback.
TextsToHighlightNone(answer, question) == <<>>
TextsToHighlight(answer, question) ==
    IF Len(ExtractMarked(answer)) = 0
      THEN extractKeyPhrasesForHighlighting(answer, question)
      ELSE ExtractMarked(answer)

\* reader.read() reports done: the loop ends and the rest of the handler
\* runs without suspending (lines 329-394), onHighlight being addHighlights.
StreamDone ==
    /\ pc = "reading"
    /\ wire = <<>>
    /\ wireState \in {"closed", "errored"}
    /\ \E texts \in {TextsToHighlight(assistantContent, currentQuestion)} :
       \E cleanContent \in {CleanContent(assistantContent)} :
          /\ exactTextsToHighlight' = texts
          /\ messages' = SetContent(messages, assistantId, cleanContent)
          /\ IF Len(texts) > 0 /\ Len(closureContractText) > 0
               THEN \E found \in
                        {findExactTextHighlights(closureContractText, texts)} :
                            addHighlights(found)
               ELSE addHighlights(<<>>)
    /\ isLoading' = FALSE
    /\ pc' = "idle"
    /\ UNCHANGED <<pdfPages, contractText, currentQuestion, assistantContent,
                   closureContractText, assistantId, streamVars, layerVars,
                   sessionVars>>

(***************************************************************************)
(* The documents, questions and answers the pipeline is run on.            *)
(***************************************************************************)
MaxPages == 3
MaxSegments == 2
MaxSpans == 2

Item(str, eol) == [str |-> str, hasEOL |-> eol]

\* "Pay in 30 days." in two items, "Fee $50 net" in two items, and a page
\* without text (a scanned page).
PagePay ==
    <<Item(<<"P", "a", "y", " ", "i", "n">>, FALSE),
      Item(<<"3", "0", " ", "d", "a", "y", "s", ".">>, TRUE)>>
PageFee ==
    <<Item(<<"F", "e", "e">>, TRUE),
      Item(<<"$", "5", "0", " ", "n", "e", "t">>, FALSE)>>
PageEmpty == <<>>
PageChoices == {PagePay, PageFee, PageEmpty}

\* The documents whose extraction succeeds.
Documents ==
    {d \in SeqsUpTo(PageChoices, MaxPages) : extractTextFromPDF(d).ok}

CitePay ==
    <<"P", "a", "y", " ", "i", "n", " ", "3", "0", " ", "d", "a", "y", "s">>
CiteFee == <<"F", "e", "e", " ", "$", "5", "0">>
AndMore == <<" ", "a", "n", "d", " ", "m", "o", "r", "e">>

\* The pieces an answer is made of: citations with paired markers, with
\* the closing marker missing, with text inside the opening marker, a bare
\* <<HIGHLIGHT, quoted texts, plain text, a line break.
SegmentChoices ==
    {Marker \o CitePay \o Marker,
     Marker \o CitePay,
     Marker \o CiteFee \o Marker,
     MarkerOpen \o <<" ", "x", ">", ">">> \o CiteFee \o Marker,
     MarkerOpen,
     Marker \o <<"a", "b">> \o Marker,
     Marker \o <<" ", " ", " ", " ", " ">> \o Marker,
     Quote \o CiteFee \o Quote,
     AndMore,
     <<"\n">>}

Answers == {Flatten(segs) : segs \in SeqsUpTo(SegmentChoices, MaxSegments)}

Questions ==
    {<<"W", "h", "e", "n", " ", "t", "o", " ", "p", "a", "y", "?">>,
     <<"C", "o", "s", "t", "?">>,
     <<"W", "h", "y", "?">>}

UserMessageId == 1
AssistantMessageId == 2

\* handleSubmit has sent question q about document d and has read the whole
\* answer a from the stream; the next read reports done.
AnswerRead(d, q, a) ==
    /\ ViewerState0
    /\ pdfPages = d
    /\ contractText = extractTextFromPDF(d).text
    /\ closureContractText = extractTextFromPDF(d).text
    /\ currentQuestion = q
    /\ assistantContent = a
    /\ assistantId = AssistantMessageId
    /\ messages = <<[id |-> UserMessageId, role |-> "user", content |-> q],
                    [id |-> AssistantMessageId, role |-> "assistant",
                     content |-> a]>>
    /\ isLoading = TRUE
    /\ pc = "reading"
    /\ exactTextsToHighlight = <<>>
    /\ StreamEnded
    /\ LayerIdle
    /\ SessionIdle

PipelineDocuments ==
    {<<PagePay>>, <<PageFee, PagePay>>}

PipelineInit ==
    \E d \in PipelineDocuments : \E q \in Questions : \E a \in Answers :
        AnswerRead(d, q, a)

PipelineNext == StreamDone

SpecPipeline == PipelineInit /\ [][PipelineNext]_vars

\* Answers without markers, for the fallback: a quoted text longer than 10
\* characters, an amount, a payment term, plain text, a full stop.
NetThirtyDays ==
    <<" ", "n", "e", "t", " ", "3", "0", " ", "d", "a", "y", "s">>
FallbackSegments ==
    {Quote \o CitePay \o Quote,
     <<" ", "$", "5", "0">>,
     NetThirtyDays,
     AndMore,
     <<".">>}

FallbackAnswers ==
    {Flatten(segs) : segs \in SeqsUpTo(FallbackSegments, MaxSegments)}

FallbackInit ==
    \E d \in PipelineDocuments : \E q \in Questions :
        \E a \in FallbackAnswers : AnswerRead(d, q, a)

SpecFallback == FallbackInit /\ [][PipelineNext]_vars

\* Answers with malformed markers, for the cleaning of the displayed text:
\* a bare <<HIGHLIGHT followed by text, a marker with text before its >>,
\* paired and unclosed citations, plain text.
CleanSegments ==
    {MarkerOpen \o AndMore,
     MarkerOpen \o <<" ", "x", ">", ">">> \o CiteFee \o Marker,
     Marker \o CitePay \o Marker,
     Marker \o CitePay,
     AndMore}

CleanAnswers ==
    {Flatten(segs) : segs \in SeqsUpTo(CleanSegments, MaxSegments)}

CleanInit ==
    \E d \in PipelineDocuments : \E q \in Questions :
        \E a \in CleanAnswers : AnswerRead(d, q, a)

SpecClean == CleanInit /\ [][PipelineNext]_vars

(***************************************************************************)
(* findExactTextHighlights applied to a list of texts and a document (the  *)
(* call of lines 376-378), and applied again to the same arguments.        *)
(***************************************************************************)
SpanChoices ==
    {<<"P", "a", "y", " ", "i", "n">>,
     <<"F", "E", "E", " ", "\n", "$", "5", "0">>,
     <<"b", "o", "g", "u", "s">>,
     <<"n", "e", "t">>,
     <<" ", " ", " ", " ", " ">>}

SpanLists == SeqsUpTo(SpanChoices, MaxSpans)

ResolveInit ==
    \E d \in Documents : \E texts \in SpanLists :
        /\ ViewerState0
        /\ pdfPages = d
        /\ contractText = extractTextFromPDF(d).text
        /\ closureContractText = extractTextFromPDF(d).text
        /\ exactTextsToHighlight = texts
        /\ currentQuestion = <<>>
        /\ assistantContent = <<>>
        /\ assistantId = AssistantMessageId
        /\ messages = <<>>
        /\ isLoading = TRUE
        /\ pc = "resolve"
        /\ StreamEnded
        /\ LayerIdle
        /\ SessionIdle

ResolveHighlights ==
    /\ pc \in {"resolve", "resolved"}
    /\ \E found \in {findExactTextHighlights(closureContractText,
                                             exactTextsToHighlight)} :
          addHighlights(found)
    /\ pc' = IF pc = "resolve" THEN "resolved" ELSE "resolved again"
    /\ UNCHANGED <<pdfPages, contractText, messages, isLoading,
                   currentQuestion, assistantContent, exactTextsToHighlight,
                   closureContractText, assistantId, streamVars, layerVars,
                   sessionVars>>

ResolveNext == ResolveHighlights

SpecResolve == ResolveInit /\ [][ResolveNext]_vars

(***************************************************************************)
(* Vocabulary of the claims about the citation pipeline.                   *)
(***************************************************************************)
Range(seq) == {seq[i] : i \in 1..Len(seq)}

Occurrences(s, pat) ==
    {i \in 0..(Len(s) - Len(pat)) : StartsWithAt(s, i, pat)}

IsProperPrefix(c, t) == Len(t) > Len(c) /\ StartsWithAt(t, 0, c)

HasLineBreak(s) == \E i \in 1..Len(s) : ~IsDot(s[i])

\* Case-insensitive containment, as the resolver compares.
ContainsText(text, span) == Includes(ToLowerCase(text), ToLowerCase(span))

Cites == {CitePay, CiteFee}

\* The answer holds exactly two markers, and they enclose c.
PairedCitation(a, c) ==
    \E i \in Occurrences(a, Marker \o c \o Marker) :
        Occurrences(a, MarkerOpen) = {i, i + Len(Marker) + Len(c)}

\* The answer holds exactly one marker, at offset i; c follows it and text
\* follows c.
UnclosedCitationAt(a, c, i) ==
    /\ StartsWithAt(a, i, Marker \o c)
    /\ Occurrences(a, MarkerOpen) = {i}
    /\ i + Len(Marker) + Len(c) < Len(a)

\* The handler has run to its end on the answer read from the stream.
AnswerHandled == pc = "idle" /\ lastOp.op = "addHighlights"

(***************************************************************************)
(* C4  An answer that is one citation in a correctly paired marker, the    *)
(* cited text occurring verbatim on page 1: onHighlight receives exactly   *)
(* one highlight, and it is on page 1.                                     *)
(***************************************************************************)
C4_OneHighlightOnPageOne ==
    (/\ AnswerHandled
     /\ \E c \in Cites :
           /\ assistantContent = Marker \o c \o Marker
           /\ Includes(PageText(pdfPages[1]), c))
    => (Len(highlights) = 1 /\ highlights[1].pageNumber = 1)

PagesHolding(pages, span) ==
    {n \in 1..Len(pages) : ContainsText(PageText(pages[n]), span)}

C6_HighlightOnOwningPage ==
    pc \in {"resolved", "resolved again"} =>
        \A i \in 1..Len(exactTextsToHighlight) :
            LET span == CollapseWhitespace(Trim(exactTextsToHighlight[i]))
            IN (Len(span) >= 5 /\ PagesHolding(pdfPages, span) # {}) =>
                  \E k \in 1..Len(highlights) :
                      /\ highlights[k].text = span
                      /\ highlights[k].pageNumber \in PagesHolding(pdfPages, span)

(***************************************************************************)
(* C7  Resolution is deterministic: every highlight's id is                *)
(* exact-highlight-<index>-<offset> for the index of its text in the list  *)
(* and the offset of its first occurrence in the normalized document; no   *)
(* two highlights of a result share an id; resolving the same texts        *)
(* against the same document again yields the same sequence.               *)
(***************************************************************************)
FirstOffset(contractTxt, text) ==
    IndexOf(ToLowerCase(CollapseWhitespace(contractTxt)),
            ToLowerCase(CollapseWhitespace(Trim(text))), 0)

C7_IdsDetermined ==
    pc \in {"resolved", "resolved again"} =>
        /\ \A k \in 1..Len(highlights) :
              \E i \in 1..Len(exactTextsToHighlight) :
                 /\ highlights[k].text =
                        CollapseWhitespace(Trim(exactTextsToHighlight[i]))
                 /\ FirstOffset(closureContractText, exactTextsToHighlight[i])
                        >= 0
                 /\ highlights[k].id =
                        ExactHighlightPrefix \o NatToString(i - 1) \o <<"-">>
                          \o NatToString(FirstOffset(closureContractText,
                                                     exactTextsToHighlight[i]))
        /\ \A k, m \in 1..Len(highlights) :
              highlights[k].id = highlights[m].id => k = m

C7_Deterministic ==
    /\ []C7_IdsDetermined
    /\ [][pc = "resolved" =>
            (highlights' = highlights /\ currentHighlight' = currentHighlight)]_vars

\* The same text twice in the list, resolved twice: two highlights at the
\* same offset with different ids.
C7_Witness ==
    /\ pc = "resolved again"
    /\ Len(highlights) = 2
    /\ highlights[1].text = highlights[2].text
    /\ highlights[1].id # highlights[2].id

(***************************************************************************)
(* The wire formats of the chat request.  A fixed piece of a line (the     *)
(* 'data: ' prefix, '[DONE]', the JSON around the content string) is one   *)
(* element of the byte sequence; the content string is spelled character   *)
(* by character, escaped as JSON.stringify escapes it.                     *)
(***************************************************************************)
LF == "\n"
DataPrefix == "data: "
DoneToken == "[DONE]"
ChunkOpen == "{\"choices\":[{\"delta\":{\"content\":"
ChunkClose == "}}]}"
ZeroPrefix == "0:"
ContentOpen == "{\"content\":"
ContentClose == "}"

\* JSON.stringify of a string.
EscapeChar(c) ==
    CASE c = "\n" -> <<"\\", "n">>
      [] c = "\"" -> <<"\\", "\"">>
      [] c = "\\" -> <<"\\", "\\">>
      [] OTHER -> <<c>>

JsonString(str) ==
    Quote \o Flatten([i \in 1..Len(str) |-> EscapeChar(str[i])]) \o Quote

\* The characters of a JSON string literal's body from position i on;
\* ok is FALSE when the body is not well formed.
RECURSIVE UnescapeFrom(_, _)
UnescapeFrom(s, i) ==
    IF i > Len(s) THEN [ok |-> TRUE, text |-> <<>>]
    ELSE IF s[i] = "\\"
      THEN IF i + 1 <= Len(s) /\ s[i + 1] \in {"n", "\"", "\\"}
             THEN LET rest == UnescapeFrom(s, i + 2)
                  IN [ok |-> rest.ok,
                      text |-> <<IF s[i + 1] = "n" THEN "\n" ELSE s[i + 1]>>
                                 \o rest.text]
             ELSE [ok |-> FALSE, text |-> <<>>]
    ELSE IF s[i] \in {"\"", "\n", DataPrefix, DoneToken, ChunkOpen,
                      ChunkClose, ZeroPrefix, ContentOpen, ContentClose}
      THEN [ok |-> FALSE, text |-> <<>>]
    ELSE LET rest == UnescapeFrom(s, i + 1)
         IN [ok |-> rest.ok, text |-> <<s[i]>> \o rest.text]

\* JSON.parse of open "..." close, and the content string it holds; ok is
\* FALSE where JSON.parse throws.
ParseContent(data, open, close) ==
    IF /\ Len(data) >= 4
       /\ data[1] = open
       /\ data[2] = "\""
       /\ data[Len(data) - 1] = "\""
       /\ data[Len(data)] = close
      THEN LET body == UnescapeFrom(SubSeq(data, 3, Len(data) - 2), 1)
           IN [ok |-> body.ok, content |-> body.text]
      ELSE [ok |-> FALSE, content |-> <<>>]

\* String.prototype.split('\n').
RECURSIVE SplitLines(_)
SplitLines(chunk) ==
    LET breaks == {i \in 1..Len(chunk) : chunk[i] = LF}
    IN IF breaks = {} THEN <<chunk>>
       ELSE <<SubSeq(chunk, 1, Min(breaks) - 1)>>
              \o SplitLines(SubSeq(chunk, Min(breaks) + 1, Len(chunk)))

\* The body the model API streams for a list of deltas: one server-sent
\* event per delta, and 'data: [DONE]' at the end.
DeltaEvent(content) ==
    <<DataPrefix, ChunkOpen>> \o JsonString(content) \o <<ChunkClose, LF, LF>>
DoneEvent == <<DataPrefix, DoneToken, LF, LF>>
DeltaEvents(ds) == Flatten([i \in 1..Len(ds) |-> DeltaEvent(ds[i])])

\* `0:${JSON.stringify({ content })}\n`
StreamData(content) ==
    <<ZeroPrefix, ContentOpen>> \o JsonString(content)
        \o <<ContentClose, LF>>

(***************************************************************************)
(* The chat route (POST of the chat route, src/unnamed/part_001).          *)
(***************************************************************************)
KeyNotConfigured == <<"OpenAI API key not configured">>
QuotaExceeded ==
    <<"OpenAI quota exceeded. Please check your OpenAI billing.">>
ErrorProcessing == <<"Error processing chat request">>

IsOk(status) == status \in 200..299

\* What the route answers when the model API's response is not ok.
UpstreamErrorAlwaysGeneric(status) ==
    [status |-> 500, error |-> ErrorProcessing]
UpstreamError(status) ==
    IF status = 429
      THEN [status |-> 429, error |-> QuotaExceeded]
      ELSE [status |-> 500, error |-> ErrorProcessing]

\* The for loop over the lines of one chunk read from the model API: the
\* stream data enqueued, and whether controller.close() was called.
RECURSIVE RelayLines(_)
RelayLines(lines) ==
    IF lines = <<>> THEN [out |-> <<>>, closed |-> FALSE]
    ELSE LET line == Head(lines)
         IN IF Len(line) >= 1 /\ line[1] = DataPrefix
              THEN IF Tail(line) = <<DoneToken>>
                     THEN [out |-> <<>>, closed |-> TRUE]
                     ELSE LET parsed ==
                                ParseContent(Tail(line), ChunkOpen, ChunkClose)
                              rest == RelayLines(Tail(lines))
                          IN IF parsed.ok /\ parsed.content # <<>>
                               THEN [out |-> StreamData(parsed.content)
                                                \o rest.out,
                                     closed |-> rest.closed]
                               ELSE rest
              ELSE RelayLines(Tail(lines))

\* The statuses the model API answers with, the deltas of an answer, and
\* how its body ends.
MaxDeltas == 2
UpstreamStatuses == {200, 429, 500}
DeltaChoices == {<<"a">>, <<"\n">>}
DeltaLists == SeqsUpTo(DeltaChoices, MaxDeltas)
BodyKinds == {"done", "cut", "fails"}

\* The route handles the request of handleSubmit's fetch, up to the return
\* of its response; deltaLists are the answers the model API may stream.
POSTWith(deltaLists) ==
    /\ pc = "fetching"
    /\ fetchResponse = NoResponse
    /\ IF ~apiKey
         THEN /\ fetchResponse' =
                    [status |-> 500, error |-> KeyNotConfigured]
              /\ UNCHANGED <<openaiStatus, emitted, upstream, upstreamState,
                             relayPc, wire, wireState>>
         ELSE \E status \in UpstreamStatuses :
                /\ openaiStatus' = status
                /\ IF ~IsOk(status)
                     THEN /\ fetchResponse' = UpstreamError(status)
                          /\ UNCHANGED <<emitted, upstream, upstreamState,
                                         relayPc, wire, wireState>>
                     ELSE \E ds \in deltaLists : \E kind \in BodyKinds :
                            /\ fetchResponse' =
                                  [status |-> 200, error |-> <<>>]
                            /\ emitted' = ds
                            /\ upstream' =
                                  DeltaEvents(ds) \o
                                    (IF kind = "done" THEN DoneEvent
                                                      ELSE <<>>)
                            /\ upstreamState' =
                                  IF kind = "fails" THEN "fails" ELSE "ends"
                            /\ relayPc' = "reading"
                            /\ wire' = <<>>
                            /\ wireState' = "open"
    /\ UNCHANGED <<viewerVars, chatVars, layerVars, sessionVars, input,
                   apiKey>>

POST == POSTWith(DeltaLists)

\* The lengths of the chunks a read may yield of the bytes in flight: any,
\* or, when the transport delivers whole lines, those that end with the
\* line break that ends an event.
ChunkLengths(bytes, wholeLines) ==
    {k \in 1..Len(bytes) :
        wholeLines => /\ bytes[k] = LF
                      /\ (k < Len(bytes) => bytes[k + 1] # LF)}

\* reader.read() of the route yields a chunk: the first k bytes of what the
\* model API has still to send.
RelayReadChunkOf(wholeLines) ==
    /\ relayPc = "reading"
    /\ \E k \in ChunkLengths(upstream, wholeLines) :
         \E r \in {RelayLines(SplitLines(SubSeq(upstream, 1, k)))} :
            /\ upstream' = SubSeq(upstream, k + 1, Len(upstream))
            /\ wire' = wire \o r.out
            /\ wireState' = IF r.closed THEN "closed" ELSE wireState
            /\ relayPc' = IF r.closed THEN "returned" ELSE relayPc
    /\ UNCHANGED <<viewerVars, chatVars, layerVars, sessionVars, input, apiKey,
                   openaiStatus, emitted, fetchResponse, upstreamState>>

RelayReadChunk == RelayReadChunkOf(FALSE)

\* reader.read() of the route reports done: the loop breaks and start
\* returns.
RelayReadDone ==
    /\ relayPc = "reading"
    /\ upstream = <<>>
    /\ upstreamState = "ends"
    /\ relayPc' = "returned"
    /\ UNCHANGED <<viewerVars, chatVars, layerVars, sessionVars, input, apiKey,
                   openaiStatus, emitted, fetchResponse, upstream,
                   upstreamState, wire, wireState>>

\* reader.read() of the route throws: controller.error(error), which
\* discards what is still queued.
RelayReadError ==
    /\ relayPc = "reading"
    /\ upstream = <<>>
    /\ upstreamState = "fails"
    /\ relayPc' = "returned"
    /\ wire' = <<>>
    /\ wireState' = "errored"
    /\ UNCHANGED <<viewerVars, chatVars, layerVars, sessionVars, input, apiKey,
                   openaiStatus, emitted, fetchResponse, upstream,
                   upstreamState>>

(***************************************************************************)
(* ChatInterface: the input field and handleSubmit up to the read loop     *)
(* (src/components/pdf-viewer-simple.tsx).                                 *)
(***************************************************************************)
MaxQuestions == 1

FailedToGetResponse == <<"Failed to get response">>
SorryPrefix == <<"Sorry, I encountered an error: ">>
PleaseTryAgain == <<". Please try again.">>

\* throw new Error(errorData.error || 'Failed to get response')
ThrownMessage(errorData) ==
    IF errorData.error # <<>> THEN errorData.error ELSE FailedToGetResponse

\* The content of the message the catch block adds.
ErrorContent(message) == SorryPrefix \o message \o PleaseTryAgain

QuestionsAsked == Cardinality({i \in 1..Len(messages) : messages[i].role = "user"})

InputTexts == {<<" ", " ">>, <<"W", "h", "y", "?">>}

\* The user types while no question is in flight.
handleInputChange(text) ==
    /\ pc = "idle"
    /\ input # text
    /\ input' = text
    /\ UNCHANGED <<viewerVars, chatVars, layerVars, sessionVars, apiKey,
                   openaiStatus, emitted, fetchResponse, upstream, upstreamState, relayPc,
                   wire, wireState>>

\* handleSubmit up to its fetch (lines 242-272).  Date.now() is read as the
\* number of messages so far plus one; the request of the previous question
\* is over and forgotten.
handleSubmit ==
    /\ IF Trim(input) = <<>> \/ contractText = <<>> \/ isLoading
         THEN UNCHANGED vars
         ELSE /\ QuestionsAsked < MaxQuestions
              /\ messages' = Append(messages,
                                    [id |-> Len(messages) + 1, role |-> "user",
                                     content |-> input])
              /\ currentQuestion' = input
              /\ closureContractText' = contractText
              /\ input' = <<>>
              /\ isLoading' = TRUE
              /\ pc' = "fetching"
              /\ fetchResponse' = NoResponse
              /\ openaiStatus' = 0
              /\ emitted' = <<>>
              /\ upstream' = <<>>
              /\ upstreamState' = "none"
              /\ relayPc' = "none"
              /\ wire' = <<>>
              /\ wireState' = "none"
              /\ askedFile' = file
              /\ UNCHANGED <<viewerVars, layerVars, pendingExtractions,
                             pdfPages, contractText,
                             assistantContent, exactTextsToHighlight,
                             assistantId, apiKey>>

\* The same without the finally block.
FetchResolvesWithoutFinally ==
    /\ pc = "fetching"
    /\ fetchResponse # NoResponse
    /\ IF ~IsOk(fetchResponse.status)
         THEN /\ messages' =
                    Append(messages,
                           [id |-> Len(messages) + 1, role |-> "assistant",
                            content |->
                               ErrorContent(ThrownMessage(fetchResponse))])
              /\ pc' = "idle"
              /\ UNCHANGED <<assistantContent, assistantId, isLoading>>
         ELSE /\ assistantContent' = <<>>
              /\ assistantId' = Len(messages) + 1
              /\ messages' =
                    Append(messages,
                           [id |-> Len(messages) + 1, role |-> "assistant",
                            content |-> <<>>])
              /\ pc' = "reading"
              /\ UNCHANGED isLoading
    /\ UNCHANGED <<viewerVars, layerVars, sessionVars, streamVars, pdfPages,
                   contractText,
                   currentQuestion, exactTextsToHighlight,
                   closureContractText>>

\* The fetch resolves (lines 274-295): a response that is not ok throws
\* into the catch block and the finally block (385-395); otherwise the
\* assistant message is added and the read loop starts.
FetchResolves ==
    /\ pc = "fetching"
    /\ fetchResponse # NoResponse
    /\ IF ~IsOk(fetchResponse.status)
         THEN /\ messages' =
                    Append(messages,
                           [id |-> Len(messages) + 1, role |-> "assistant",
                            content |->
                               ErrorContent(ThrownMessage(fetchResponse))])
              /\ isLoading' = FALSE
              /\ pc' = "idle"
              /\ UNCHANGED <<assistantContent, assistantId>>
         ELSE /\ assistantContent' = <<>>
              /\ assistantId' = Len(messages) + 1
              /\ messages' =
                    Append(messages,
                           [id |-> Len(messages) + 1, role |-> "assistant",
                            content |-> <<>>])
              /\ pc' = "reading"
              /\ UNCHANGED isLoading
    /\ UNCHANGED <<viewerVars, layerVars, sessionVars, streamVars, pdfPages,
                   contractText,
                   currentQuestion, exactTextsToHighlight,
                   closureContractText>>

\* The for loop over the lines of one chunk read by the client: the
\* content appended to assistantContent.
RECURSIVE ClientLines(_)
ClientLines(lines) ==
    IF lines = <<>> THEN <<>>
    ELSE LET line == Head(lines)
             data == ParseContent(Tail(line), ContentOpen, ContentClose)
         IN (IF Len(line) >= 1 /\ line[1] = ZeroPrefix /\ data.ok
               THEN data.content ELSE <<>>)
            \o ClientLines(Tail(lines))

\* reader.read() of the client yields a chunk: the first k bytes enqueued
\* by the route and not read yet (lines 299-323).
ClientReadChunkOf(wholeLines) ==
    /\ pc = "reading"
    /\ wireState # "errored"
    /\ \E k \in ChunkLengths(wire, wholeLines) :
         \E added \in {ClientLines(SplitLines(SubSeq(wire, 1, k)))} :
            /\ wire' = SubSeq(wire, k + 1, Len(wire))
            /\ assistantContent' = assistantContent \o added
            /\ messages' =
                  IF added = <<>> THEN messages
                  ELSE SetContent(messages, assistantId,
                                  assistantContent \o added)
    /\ UNCHANGED <<viewerVars, layerVars, sessionVars, pdfPages, contractText,
                   isLoading, pc, currentQuestion, exactTextsToHighlight,
                   closureContractText, assistantId, input, apiKey,
                   openaiStatus, emitted, fetchResponse, upstream,
                   upstreamState, relayPc, wireState>>

ClientReadChunk == ClientReadChunkOf(FALSE)

\* A session of the chat about one loaded document.
StreamInit ==
    /\ ViewerState0
    /\ LayerIdle
    /\ SessionIdle
    /\ \E d \in {<<>>, <<PagePay>>} :
          /\ pdfPages = d
          /\ contractText =
                IF d = <<>> THEN <<>> ELSE extractTextFromPDF(d).text
    /\ closureContractText = <<>>
    /\ assistantId = 0
    /\ messages = <<>>
    /\ isLoading = FALSE
    /\ pc = "idle"
    /\ currentQuestion = <<>>
    /\ assistantContent = <<>>
    /\ exactTextsToHighlight = <<>>
    /\ input = <<>>
    /\ apiKey \in BOOLEAN
    /\ openaiStatus = 0
    /\ emitted = <<>>
    /\ fetchResponse = NoResponse
    /\ upstream = <<>>
    /\ upstreamState = "none"
    /\ relayPc = "none"
    /\ wire = <<>>
    /\ wireState = "none"

StreamNext ==
    \/ \E text \in InputTexts : handleInputChange(text)
    \/ handleSubmit
    \/ POST
    \/ RelayReadChunk
    \/ RelayReadDone
    \/ RelayReadError
    \/ FetchResolves
    \/ ClientReadChunk
    \/ StreamDone

SpecStream == StreamInit /\ [][StreamNext]_vars

\* The event loop runs every continuation that is ready: the route's
\* handler and its reads, the resolution of the fetch, the client's reads
\* and the rest of handleSubmit.  What the user does is left unforced.
StreamFairness ==
    /\ WF_vars(POST)
    /\ WF_vars(RelayReadChunk)
    /\ WF_vars(RelayReadDone)
    /\ WF_vars(RelayReadError)
    /\ WF_vars(FetchResolves)
    /\ WF_vars(ClientReadChunk)
    /\ WF_vars(StreamDone)

SpecStreamFair == SpecStream /\ StreamFairness

(***************************************************************************)
(* A session: documents are uploaded while their text is extracted and     *)
(* while a question is answered (ContractViewer.handleFileUpload and the   *)
(* file effect of ChatInterface).                                          *)
(***************************************************************************)
\* The files the user picks, by name: two with text and a scanned one.
FileDocuments == << <<PagePay>>, <<PageFee>>, <<PageEmpty>> >>
FileNames == DOMAIN FileDocuments

\* The text extractTextFromPDF resolves with for file f, when it does.
FileText(f) == extractTextFromPDF(FileDocuments[f]).text

\* The answers of a session: a citation in paired markers, as one delta and
\* split over two.
PayIn == <<"P", "a", "y", " ", "i", "n">>
ThirtyDays == <<" ", "3", "0", " ", "d", "a", "y", "s">>
SessionDeltaLists ==
    {<<Marker \o CitePay \o Marker>>,
     <<Marker \o PayIn, ThirtyDays \o Marker>>}

\* handleFileUpload of a PDF, and the file effect its render runs: the
\* extraction of the new file starts; nothing of the chat is reset and no
\* earlier extraction or stream read is cancelled.
SessionUpload(f) ==
    /\ handleFileUpload([present |-> TRUE, name |-> f, pdf |-> TRUE])
    /\ pdfPages' = FileDocuments[f]
    /\ pendingExtractions' = pendingExtractions \cup {f}
    /\ UNCHANGED <<contractText, messages, isLoading, pc, currentQuestion,
                   assistantContent, exactTextsToHighlight,
                   closureContractText, assistantId, streamVars, layerVars,
                   askedFile>>

\* The promise of extractTextFromPDF(f) settles: then(setContractText), or
\* catch(console.error).
ExtractionSettles(f) ==
    /\ f \in pendingExtractions
    /\ pendingExtractions' = pendingExtractions \ {f}
    /\ \E r \in {extractTextFromPDF(FileDocuments[f])} :
          contractText' = IF r.ok THEN r.text ELSE contractText
    /\ UNCHANGED <<viewerVars, pdfPages, messages, isLoading, pc,
                   currentQuestion, assistantContent, exactTextsToHighlight,
                   closureContractText, assistantId, streamVars, layerVars,
                   askedFile>>

SessionInit ==
    ViewerState0 /\ ChatIdle /\ StreamIdle /\ LayerIdle /\ SessionIdle

SessionNext ==
    \/ \E f \in FileNames : SessionUpload(f)
    \/ \E f \in FileNames : ExtractionSettles(f)
    \/ \E text \in InputTexts : handleInputChange(text)
    \/ handleSubmit
    \/ POSTWith(SessionDeltaLists)
    \/ RelayReadChunkOf(TRUE)
    \/ RelayReadDone
    \/ RelayReadError
    \/ FetchResolves
    \/ ClientReadChunkOf(TRUE)
    \/ StreamDone

SpecSession == SessionInit /\ [][SessionNext]_vars

(***************************************************************************)
(* PDFViewer: the fragment map of a rendered page and findTextInTextLayer  *)
(* (src/unnamed/part_003).                                                 *)
(***************************************************************************)
MaxFragments == 3

\* The separator findTextInTextLayer puts after every fragment's text.
ElementSeparatorNone == <<>>
ElementSeparator == <<" ">>

\* elementPositions and fullPageText after the first n fragments.
RECURSIVE FullPageText(_, _)
FullPageText(items, n) ==
    IF n = 0 THEN <<>>
    ELSE FullPageText(items, n - 1) \o items[n].text \o ElementSeparator

ElementPositions(items) ==
    [n \in 1..Len(items) |->
        [startIndex |-> Len(FullPageText(items, n - 1)),
         endIndex |-> Len(FullPageText(items, n - 1)) + Len(items[n].text),
         text |-> items[n].text,
         index |-> n - 1]]

\* matchingElements of one match (the forEach of lines 291-296).
RECURSIVE MatchingElements(_, _, _)
MatchingElements(positions, matchStart, matchEnd) ==
    IF positions = <<>> THEN <<>>
    ELSE (IF /\ Head(positions).startIndex <= matchEnd
             /\ Head(positions).endIndex >= matchStart
            THEN <<Head(positions)>> ELSE <<>>)
         \o MatchingElements(Tail(positions), matchStart, matchEnd)

\* The text items of a page, and the texts looked up.
FragmentTexts == {<<>>, <<"a", "b">>, <<"C">>}
TextMaps ==
    {[n \in 1..Len(texts) |-> [text |-> texts[n]]] :
        texts \in SeqsUpTo(FragmentTexts, MaxFragments)}
SearchTexts ==
    {<<"a", "b">>, <<" ", "c">>, <<"B", " ", "c">>, <<" ">>,
     <<"b", " ", " ", "c">>}

\* renderAllPages builds the page's textMap from its text items and
\* stores it.
renderAllPages(items) ==
    /\ layerPc = "idle"
    /\ textMap' = [defined |-> TRUE, items |-> items]
    /\ searchText' = <<>>
    /\ searchIndex' = 0
    /\ layerMatches' = <<>>
    /\ UNCHANGED <<viewerVars, chatVars, streamVars, sessionVars, layerPc,
                   zoomVars>>

\* findTextInTextLayer up to its loop (lines 255-282).
findTextInTextLayer(text) ==
    /\ layerPc = "idle"
    /\ searchText' = Trim(ToLowerCase(text))
    /\ searchIndex' = 0
    /\ layerMatches' = <<>>
    /\ layerPc' = IF textMap.defined THEN "searching" ELSE "idle"
    /\ UNCHANGED <<viewerVars, chatVars, streamVars, sessionVars, textMap,
                   zoomVars>>

\* One turn of the loop of findTextInTextLayer (lines 283-308).
FindNextMatch ==
    /\ layerPc = "searching"
    /\ \E positions \in {ElementPositions(textMap.items)} :
       \E foundIndex \in
            {IndexOf(ToLowerCase(FullPageText(textMap.items,
                                              Len(textMap.items))),
                     searchText, searchIndex)} :
          IF foundIndex = -1
            THEN /\ layerPc' = "idle"
                 /\ UNCHANGED <<searchIndex, layerMatches>>
            ELSE \E elements \in
                     {MatchingElements(positions, foundIndex,
                                       foundIndex + Len(searchText))} :
                   /\ layerMatches' =
                         IF Len(elements) > 0
                           THEN Append(layerMatches,
                                       [elements |-> elements,
                                        matchStart |-> foundIndex,
                                        matchEnd |->
                                           foundIndex + Len(searchText),
                                        searchText |-> searchText])
                           ELSE layerMatches
                   /\ searchIndex' = foundIndex + 1
                   /\ UNCHANGED layerPc
    /\ UNCHANGED <<viewerVars, chatVars, streamVars, sessionVars, textMap,
                   searchText, zoomVars>>

LayerInit ==
    ViewerState0 /\ ChatIdle /\ StreamIdle /\ LayerIdle /\ SessionIdle

LayerNext ==
    \/ \E items \in TextMaps : renderAllPages(items)
    \/ \E text \in SearchTexts : findTextInTextLayer(text)
    \/ FindNextMatch

SpecLayer == LayerInit /\ [][LayerNext]_vars

\* findTextInTextLayer is synchronous: once called, its loop keeps running.
SpecLayerFair == SpecLayer /\ WF_vars(FindNextMatch)

(***************************************************************************)
(* PDFViewer: rendering passes and zoom (src/unnamed/part_003).            *)
(* renderAllPages is async: it awaits getPage, render and getTextContent   *)
(* for each page and stores its maps after the last one.  The scale it     *)
(* uses is the one of the render that called it.                           *)
(***************************************************************************)
MaxZooms == 3
MaxPasses == 2

\* loadPDF resolves: setPdfDoc, setTotalPages; then the effect on
\* [pdfDoc, totalPages] calls renderAllPages.
loadPDF(numPages) ==
    /\ pdfDoc = 0
    /\ Len(renderPasses) < MaxPasses
    /\ pdfDoc' = numPages
    /\ renderPasses' = Append(renderPasses, [scale |-> scale, pageNum |-> 1])
    /\ UNCHANGED <<viewerVars, chatVars, streamVars, sessionVars, searchVars,
                   scale, pageTextMaps, zoomClicks>>

\* setScale, then the effect on [scale]: when the scale changed and pages
\* have been rendered, renderAllPages is called with the new scale.
setScale(next) ==
    /\ zoomClicks < MaxZooms
    /\ zoomClicks' = zoomClicks + 1
    /\ scale' = next
    /\ IF next # scale /\ pdfDoc # 0 /\ pageTextMaps.pages > 0
         THEN /\ Len(renderPasses) < MaxPasses
              /\ renderPasses' =
                    Append(renderPasses, [scale |-> next, pageNum |-> 1])
         ELSE UNCHANGED renderPasses
    /\ UNCHANGED <<viewerVars, chatVars, streamVars, sessionVars, searchVars,
                   pdfDoc, pageTextMaps>>

zoomIn ==
    setScale(IF scale + ScaleStep < MaxScale THEN scale + ScaleStep
             ELSE MaxScale)

zoomOut ==
    setScale(IF scale - ScaleStep > MinScale THEN scale - ScaleStep
             ELSE MinScale)

\* The awaits of one page of pass i resolve; after the last page the pass
\* stores its maps and its list of rendered pages and returns.
RenderPageResolves(i) ==
    /\ i \in 1..Len(renderPasses)
    /\ IF renderPasses[i].pageNum < pdfDoc
         THEN /\ renderPasses' =
                    [renderPasses EXCEPT ![i].pageNum = @ + 1]
              /\ UNCHANGED pageTextMaps
         ELSE /\ pageTextMaps' =
                    [pages |-> pdfDoc, scale |-> renderPasses[i].scale]
              /\ renderPasses' =
                    [k \in 1..(Len(renderPasses) - 1) |->
                        IF k < i THEN renderPasses[k]
                        ELSE renderPasses[k + 1]]
    /\ UNCHANGED <<viewerVars, chatVars, streamVars, sessionVars, searchVars,
                   scale, pdfDoc, zoomClicks>>

ZoomNext ==
    \/ \E numPages \in 1..MaxPages : loadPDF(numPages)
    \/ zoomIn
    \/ zoomOut
    \/ \E i \in 1..MaxPasses : RenderPageResolves(i)

SpecZoom == LayerInit /\ [][ZoomNext]_vars

(***************************************************************************)
(* C8  For every sequence of fragments, empty ones included, the covering  *)
(* computation applied to the offset range recorded for one fragment       *)
(* selects that fragment and no other; and so does every match that        *)
(* findTextInTextLayer reports at exactly one fragment's range.            *)
(***************************************************************************)
C8_LookupOfFragmentRange ==
    textMap.defined =>
        LET positions == ElementPositions(textMap.items)
        IN /\ \A j \in 1..Len(positions) :
                 MatchingElements(positions, positions[j].startIndex,
                                  positions[j].endIndex) = <<positions[j]>>
           /\ \A m \in 1..Len(layerMatches) : \A j \in 1..Len(positions) :
                 (/\ layerMatches[m].matchStart = positions[j].startIndex
                  /\ layerMatches[m].matchEnd = positions[j].endIndex)
                 => layerMatches[m].elements = <<positions[j]>>

\* "c" was looked up on a page whose fragments are "ab", "" and "C": one
\* match, at the range of the third fragment, which alone is selected.
C8_Witness ==
    /\ layerPc = "idle"
    /\ textMap.defined
    /\ Len(textMap.items) = 3
    /\ textMap.items[2].text = <<>>
    /\ searchText = <<"c">>
    /\ Len(layerMatches) = 1
    /\ Len(layerMatches[1].elements) = 1
    /\ layerMatches[1].elements[1].index = 2
    /\ layerMatches[1].matchStart = layerMatches[1].elements[1].startIndex
    /\ layerMatches[1].matchEnd = layerMatches[1].elements[1].endIndex

(***************************************************************************)
(* C9  When the model API answers with status 429, the route returns       *)
(* status 429 with the quota error, which is not the error of the generic  *)
(* 500 response, and the message the chat then shows holds the quota       *)
(* error and not the generic one.                                          *)
(***************************************************************************)
C9_QuotaDistinguished ==
    (apiKey /\ openaiStatus = 429 /\ fetchResponse # NoResponse) =>
        /\ fetchResponse.status = 429
        /\ fetchResponse.error = QuotaExceeded
        /\ fetchResponse.error # ErrorProcessing
        /\ pc = "idle" =>
              LET shown == messages[Len(messages)]
              IN /\ shown.role = "assistant"
                 /\ Includes(shown.content, QuotaExceeded)
                 /\ ~Includes(shown.content, ErrorProcessing)
                 /\ ~Includes(shown.content, FailedToGetResponse)

C9_Witness ==
    /\ apiKey
    /\ openaiStatus = 429
    /\ pc = "idle"
    /\ ~isLoading
    /\ Len(messages) = 2
    /\ messages[2].content = SorryPrefix \o QuotaExceeded \o PleaseTryAgain

(***************************************************************************)
(* C10  When the answer stream has ended, assistantContent is the          *)
(* concatenation, in order, of the contents of the deltas the model        *)
(* emitted, however the bytes were split into chunks on the way.           *)
(***************************************************************************)
C10_AnswerIsConcatenation ==
    (/\ pc = "idle"
     /\ IsOk(fetchResponse.status)
     /\ wireState = "closed")
    => assistantContent = Flatten(emitted)

(***************************************************************************)
(* C11  Loading a new document while an answer is being read cancels the   *)
(* read: once a new PDF has been uploaded, no highlight computed from the  *)
(* answer to a question asked about the previous document is installed, so *)
(* whatever highlights are shown belong to a question asked about the      *)
(* file that is loaded.                                                    *)
(***************************************************************************)
C11_NoHighlightOfPreviousDocument ==
    highlights # <<>> => askedFile = file

(***************************************************************************)
(* C12  On document replace the previous document's text is discarded:     *)
(* at every moment after a file has been uploaded, the contractText the    *)
(* chat resolves highlights in is empty or the extracted text of the file  *)
(* that is loaded, never the text of an earlier file (while the new        *)
(* extraction is pending, when it fails with 'no text', and when two       *)
(* extractions complete out of order).                                     *)
(***************************************************************************)
C12_TextOfLoadedFileOnly ==
    file # 0 => contractText \in {<<>>, FileText(file)}

(***************************************************************************)
(* C13  If reading the answer stream fails after deltas have been          *)
(* received, the text accumulated so far is kept: the assistant message    *)
(* shown after the failure is exactly the content of the deltas received   *)
(* before the failure with each marker replaced by a quotation mark; it    *)
(* is neither emptied nor replaced by an error message.                    *)
(***************************************************************************)
\* s with every marker replaced by a quotation mark.
RECURSIVE Quoted(_)
Quoted(s) ==
    IF s = <<>> THEN <<>>
    ELSE IF StartsWithAt(s, 0, Marker)
      THEN Quote \o Quoted(SubSeq(s, Len(Marker) + 1, Len(s)))
      ELSE <<Head(s)>> \o Quoted(Tail(s))

\* The read of the answer has failed and handleSubmit has returned.
ReadFailed == pc = "idle" /\ wireState = "errored" /\ assistantId # 0

\* The content of the assistant message of the answer.
AnswerShown ==
    LET shown == {i \in 1..Len(messages) : messages[i].id = assistantId}
    IN IF shown = {} THEN <<"(no message)">>
       ELSE messages[CHOOSE i \in shown : TRUE].content

\* The texts the deltas sent by the model API add up to, delta by delta.
DeltaPrefixes ==
    {Flatten(SubSeq(emitted, 1, k)) : k \in 0..Len(emitted)}

ReadErrorHandled == pc = "reading" /\ pc' = "idle" /\ wireState = "errored"

C14_NoExtractionAfterReadError ==
    [][ReadErrorHandled => highlights' = highlights]_vars

(***************************************************************************)
(* C14, amended: after a stream read error, extraction and resolution run  *)
(* on the partial answer as after a normal end: onHighlight is called with *)
(* the highlights resolved from it, which replace the highlight set: the   *)
(* empty list when nothing was received, and a highlight of the text       *)
(* after an opening marker when the document the question was asked        *)
(* about holds that text.                                                  *)
(***************************************************************************)
\* The partial answer is an opening marker and c, closed or not.
OpensCitation(a, c) == a \in {Marker \o c, Marker \o c \o Marker}

C14_ExtractionRunsAfterReadError ==
    [][ReadErrorHandled =>
         /\ lastOp'.op = "addHighlights"
         /\ highlights' = lastOp'.arg
         /\ currentHighlight' = (IF highlights' = <<>> THEN -1 ELSE 0)
         /\ assistantContent = <<>> => highlights' = <<>>
         /\ \A c \in {PayIn, CitePay} :
               (/\ OpensCitation(assistantContent, c)
                /\ ContainsText(closureContractText, c))
               => \E i \in 1..Len(highlights') : highlights'[i].text = c
    ]_vars

\* A read error has been handled and left a highlight of the text that
\* follows the unclosed marker of the partial answer.
C14_Witness ==
    /\ ReadFailed
    /\ lastOp.op = "addHighlights"
    /\ assistantContent = Marker \o PayIn
    /\ highlights # <<>>
    /\ \E i \in 1..Len(highlights) : highlights[i].text = PayIn

(***************************************************************************)
(* C15  Every transport failure during answer streaming, a read error      *)
(* after the response has started streaming included, produces a visible   *)
(* error state: an error message in the chat, next to the partial text.    *)
(***************************************************************************)
\* The chat shows a message that the catch block added.
ErrorShown ==
    \E i \in 1..Len(messages) :
        /\ messages[i].role = "assistant"
        /\ StartsWithAt(messages[i].content, 0, SorryPrefix)

C15_ReadErrorShown == ReadFailed => ErrorShown

(***************************************************************************)
(* C16  The relayed answer stream is always terminated: once the route     *)
(* relays a body, its stream is eventually closed or errored, whether or   *)
(* not a complete 'data: [DONE]' line was seen in one chunk, so that the   *)
(* client's read loop eventually observes the end and isLoading returns    *)
(* to false.                                                               *)
(***************************************************************************)
C16_StreamTerminated ==
    /\ (relayPc = "reading") ~> (wireState \in {"closed", "errored"})
    /\ (pc = "reading") ~> ~isLoading

(***************************************************************************)
(* C17  The fragments findTextInTextLayer selects for a match range        *)
(* [matchStart, matchEnd) are exactly the fragments whose half-open offset *)
(* range intersects it, in fragment order; a fragment that only touches    *)
(* the range at an endpoint is not selected.                               *)
(***************************************************************************)
\* The half-open ranges [a, b) and [c, d) have an offset in common.
Intersects(a, b, c, d) == \E x \in a..(b - 1) : x \in c..(d - 1)

C17_HalfOpenSelection ==
    \A m \in 1..Len(layerMatches) :
        layerMatches[m].elements =
            SelectSeq(ElementPositions(textMap.items),
                      LAMBDA pos :
                          Intersects(pos.startIndex, pos.endIndex,
                                     layerMatches[m].matchStart,
                                     layerMatches[m].matchEnd))

(***************************************************************************)
(* C18  Citation extraction is layered and the first layer that yields a   *)
(* span wins: when the answer holds a citation enclosed by a correctly     *)
(* paired begin and end marker, the extracted spans are only the texts     *)
(* enclosed by paired markers, each once; the degraded-marker layer and    *)
(* the later layers add nothing.                                           *)
(***************************************************************************)
C18_PairedLayerWins ==
    AnswerHandled =>
        \A c \in Cites :
            PairedCitation(assistantContent, c)
                => exactTextsToHighlight = <<c>>

(***************************************************************************)
(* C19  Every span of the explicit-marker layer is the enclosed text       *)
(* trimmed of surrounding whitespace, and a span whose trimmed text has    *)
(* fewer than 4 characters is discarded: for an answer with markers, no    *)
(* span of the extracted list is shorter than 4 characters.                *)
(***************************************************************************)
C19_NoShortSpan ==
    (AnswerHandled /\ Includes(assistantContent, Marker)) =>
        \A i \in 1..Len(exactTextsToHighlight) :
            /\ exactTextsToHighlight[i] = Trim(exactTextsToHighlight[i])
            /\ Len(exactTextsToHighlight[i]) >= 4

(***************************************************************************)
(* C20  The keyword-driven patterns contribute spans only when the marker  *)
(* layers and the quoted-text layer found nothing: if the answer holds a   *)
(* double-quoted text longer than 10 characters, no keyword-pattern match  *)
(* is added, so every span is a text the answer holds in double quotes.    *)
(***************************************************************************)
\* The texts that stand between two quotation marks of a, no quotation
\* mark inside.
QuotedTexts(a) ==
    {t \in {Substring(a, i, j) : i \in 0..Len(a), j \in 0..Len(a)} :
        /\ t # <<>>
        /\ ~Includes(t, Quote)
        /\ Includes(a, Quote \o t \o Quote)}

C20_KeywordsOnlyWhenNothingQuoted ==
    (/\ AnswerHandled
     /\ \E t \in QuotedTexts(assistantContent) : Len(t) > 10)
    => \A i \in 1..Len(exactTextsToHighlight) :
          exactTextsToHighlight[i] \in QuotedTexts(assistantContent)

(***************************************************************************)
(* C21  The extracted spans are in the order in which they appear in the   *)
(* answer, whichever pattern produced each: of two cited texts that each   *)
(* occur once in the answer, the one that starts earlier is never listed   *)
(* after the other.                                                        *)
(***************************************************************************)
C21_SpansInAnswerOrder ==
    AnswerHandled =>
        \A c1 \in Cites : \A c2 \in Cites :
            (/\ Cardinality(Occurrences(assistantContent, c1)) = 1
             /\ Cardinality(Occurrences(assistantContent, c2)) = 1
             /\ IndexOf(assistantContent, c1, 0)
                   < IndexOf(assistantContent, c2, 0))
            => \A i \in 1..Len(exactTextsToHighlight) :
               \A j \in 1..Len(exactTextsToHighlight) :
                  (/\ exactTextsToHighlight[i] = c2
                   /\ exactTextsToHighlight[j] = c1) => j < i

(***************************************************************************)
(* C22  Only the first occurrence of a cited span is highlighted: the      *)
(* viewer draws overlay rectangles for the first occurrence of the text    *)
(* on the page only, so every match findTextInTextLayer returns for a      *)
(* non-empty text starts at the smallest offset at which the text occurs.  *)
(***************************************************************************)
C22_FirstOccurrenceOnly ==
    (textMap.defined /\ searchText # <<>>) =>
        \A m \in 1..Len(layerMatches) :
            layerMatches[m].matchStart =
                IndexOf(ToLowerCase(FullPageText(textMap.items,
                                                 Len(textMap.items))),
                        searchText, 0)

(***************************************************************************)
(* C23  A span whose normalized text (whitespace runs collapsed, trimmed)  *)
(* has fewer than 5 characters is skipped by findExactTextHighlights:      *)
(* every highlight it returns has a text of at least 5 characters, never   *)
(* an empty one, also for spans that are long only because of whitespace.  *)
(***************************************************************************)
C23_NoShortHighlight ==
    pc \in {"resolved", "resolved again"} =>
        \A k \in 1..Len(highlights) : Len(highlights[k].text) >= 5

(***************************************************************************)
(* C24  A span with no match in the document is dropped without an error   *)
(* and without affecting the other spans' highlights: the highlights are   *)
(* those of the spans that have a match, one each, in the spans' order.    *)
(* When every span is dropped or none was extracted, the highlight set is  *)
(* empty with active index -1.  No error message is shown and the answer   *)
(* is still displayed.                                                     *)
(***************************************************************************)
\* The spans of the answer the document holds (those of fewer than five
\* characters the resolver does not look up), by position in the list.
SpansFound ==
    {i \in 1..Len(exactTextsToHighlight) :
        /\ Len(exactTextsToHighlight[i]) >= 5
        /\ FirstOffset(closureContractText, exactTextsToHighlight[i]) # -1}

\* The spans the resolver looks up and does not find.
SpansDropped ==
    {i \in 1..Len(exactTextsToHighlight) :
        /\ Len(exactTextsToHighlight[i]) >= 5
        /\ FirstOffset(closureContractText, exactTextsToHighlight[i]) = -1}

\* The k-th smallest element of a set of numbers.
RECURSIVE NthOf(_, _)
NthOf(S, k) == IF k = 1 THEN Min(S) ELSE NthOf(S \ {Min(S)}, k - 1)

C24_NoMatchDropped ==
    AnswerHandled =>
        /\ Len(highlights) = Cardinality(SpansFound)
        /\ \A k \in 1..Len(highlights) :
              highlights[k].text =
                 CollapseWhitespace(
                    Trim(exactTextsToHighlight[NthOf(SpansFound, k)]))
        /\ SpansFound = {} => (highlights = <<>> /\ currentHighlight = -1)
        /\ ~ErrorShown
        /\ Len(messages) = 2
        /\ messages[2].id = assistantId
        /\ assistantContent # <<>> => messages[2].content # <<>>

\* A span without a match stands before a span that is highlighted.
C24_Witness ==
    /\ AnswerHandled
    /\ highlights # <<>>
    /\ \E i \in SpansDropped : \E j \in SpansFound : i < j

\* Every span of the answer was dropped.
C24_WitnessAllDropped ==
    /\ AnswerHandled
    /\ SpansDropped # {}
    /\ SpansFound = {}
    /\ highlights = <<>>

(***************************************************************************)
(* C25  After an answer stream has completed, the assistant message shown  *)
(* holds no marker token: every occurrence of the marker, the malformed    *)
(* ones included (a marker with extra content before '>>', an unterminated *)
(* '<<HIGHLIGHT'), has been replaced by a double quote, and the rest of    *)
(* the text is unchanged.                                                  *)
(***************************************************************************)
\* The end offset of the marker token that starts at offset i of s, or -1:
\* the marker, <<HIGHLIGHT with text free of angle brackets up to '>>', or
\* <<HIGHLIGHT alone.
TokenEnd(s, i) ==
    IF StartsWithAt(s, i, Marker) THEN i + Len(Marker)
    ELSE IF ~StartsWithAt(s, i, MarkerOpen) THEN -1
    ELSE LET a == i + Len(MarkerOpen)
             J == {j \in 0..(Len(s) - a) :
                     /\ \A x \in 1..j : s[a + x] \notin {"<", ">"}
                     /\ StartsWithAt(s, a + j, <<">", ">">>)}
         IN IF J = {} THEN a ELSE a + Min(J) + 2

\* s from offset i on, every marker token replaced by a double quote.
RECURSIVE QuotedTokens(_, _)
QuotedTokens(s, i) ==
    IF i >= Len(s) THEN <<>>
    ELSE IF TokenEnd(s, i) # -1
      THEN Quote \o QuotedTokens(s, TokenEnd(s, i))
      ELSE <<s[i + 1]>> \o QuotedTokens(s, i + 1)

C25_MarkersReplacedTextKept ==
    AnswerHandled =>
        /\ ~Includes(AnswerShown, MarkerOpen)
        /\ AnswerShown = QuotedTokens(assistantContent, 0)

(***************************************************************************)
(* C26  Whenever the active highlight changes (a different highlight       *)
(* becomes the active one), the viewer scrolls to that highlight's page,   *)
(* also when a new answer replaces the highlight set and the active index  *)
(* is 0 before and after: the highlight last scrolled to is the active one.*)
(***************************************************************************)
\* The active highlight, if there is one.
ActiveHighlight ==
    IF currentHighlight >= 0 /\ currentHighlight < Len(highlights)
      THEN <<highlights[currentHighlight + 1]>>
      ELSE <<>>

C26_ScrollsToActiveHighlight ==
    ActiveHighlight # <<>> => scrolledTo = ActiveHighlight

(***************************************************************************)
(* C27  Re-running the alignment for an unchanged answer and document      *)
(* keeps the same highlight active by id: replacing the highlight set by   *)
(* a sequence with the same ids keeps active the highlight that was active *)
(* before, rather than resetting to the first.                             *)
(***************************************************************************)
C27_ActiveKeptById ==
    (/\ lastOp.op = "addHighlights"
     /\ lastOp.arg = lastOp.preH
     /\ lastOp.prev >= 0)
    => /\ ActiveHighlight # <<>>
       /\ ActiveHighlight[1].id = lastOp.preH[lastOp.prev + 1].id

(***************************************************************************)
(* C28  The overlay computation terminates: for every highlight the chat   *)
(* pipeline can install, one whose text normalizes to the empty string     *)
(* included, findTextInTextLayer completes in finitely many steps on       *)
(* every rendered page.                                                    *)
(***************************************************************************)
C28_SearchTerminates == (layerPc = "searching") ~> (layerPc = "idle")

(***************************************************************************)
(* C29  Rebuilding the fragment maps cannot race with itself: when the     *)
(* zoom scale changes while a renderAllPages pass is awaiting, then once   *)
(* every pass has finished the stored pageTextMaps hold bounds computed    *)
(* at the current scale.                                                   *)
(***************************************************************************)
C29_MapsAtCurrentScale ==
    (pdfDoc # 0 /\ renderPasses = <<>>) => pageTextMaps.scale = scale

(***************************************************************************)
(* C30  At most one question is in flight: while isLoading is true no      *)
(* question is added, no request is started and nothing handleSubmit       *)
(* writes before its fetch changes; isLoading is true exactly while a      *)
(* started submission has not finished, so on every path on which the      *)
(* request finishes it is false again.                                     *)
(***************************************************************************)
C30_OneQuestionInFlight ==
    [][/\ isLoading =>
            /\ QuestionsAsked' = QuestionsAsked
            /\ ~(pc # "fetching" /\ pc' = "fetching")
            /\ UNCHANGED <<input, currentQuestion, closureContractText,
                           askedFile>>
       /\ isLoading' <=> pc' # "idle"]_vars

\* A started submission has ended on a stream read error.
C30_Witness ==
    /\ QuestionsAsked = 1
    /\ wireState = "errored"
    /\ pc = "idle"
    /\ ~isLoading

=============================================================================
